---- MODULE Spec2Model ----
(***************************************************************************)
(* Model of src/backends/apple/native/stub.cpp: the Node-API addon that    *)
(* stands in for the Apple Speech backend on platforms other than macOS.   *)
(*                                                                         *)
(* The addon has five callbacks and a module initialiser.  The state is    *)
(* what a JavaScript host can observe of it: the exports object, the       *)
(* environment's heap of JS objects the callbacks created, the             *)
(* environment's pending exception, the log of the calls the host made     *)
(* with the outcome of each as seen at the moment it returned, and whether *)
(* the process is still running.                                           *)
(***************************************************************************)
EXTENDS Naturals, Sequences, FiniteSets

VARIABLES
    loaded,     \* TRUE once the host has run the module's Init
    exports,    \* the exports object: property name -> JS function value
    heap,       \* the environment's JS objects; an object's id is its index
    pending,    \* the environment's pending JavaScript exception
    log,        \* the host's calls, each with its outcome at return
    alive       \* FALSE once the process has died

vars == <<loaded, exports, heap, pending, log, alive>>

\* ---------------------------------------------------------------- bounds

\* The number of calls the host makes into the addon.
MaxCalls == 3

\* The number of elements the host appends to one array it was handed.
MaxPush == 1

\* ------------------------------------------------------------- JS values

Undefined == [t |-> "undefined"]

Bool(b) == [t |-> "boolean", b |-> b]

Str(s) == [t |-> "string", s |-> s]

Ref(id) == [t |-> "object", id |-> id]

Fn(cb) == [t |-> "function", cb |-> cb]

\* The environment has no exception pending.
NoException == [t |-> "none"]

\* The argument lists the host calls the entry points with: none, one
\* string (an audio path), and two values of other kinds.
ArgLists == { <<>>, <<Str("audio.wav")>>, <<Undefined, Bool(TRUE)>> }

\* ------------------------------------------------------- string literals

\* The message of the error Transcribe throws.
TranscribeMessage == "Apple Speech is only available on macOS"

\* The message of the error RequestAuthorization rejects with.
AuthorizationMessage == "Apple Speech is only available on macOS"

\* ------------------------------------------------------ Node-API wrappers

\* A callback's result: the environment it leaves, the value it returns
\* and the indices of the arguments it read from its CallbackInfo.  A
\* callback is the set of the results a call of it can have.
Result(env, ret, read) == [env |-> env, ret |-> ret, read |-> read]

\* Allocation of a JS object in the environment: the heap grows by one.
Alloc(env, obj) == [env EXCEPT !.heap = Append(@, obj)]

\* The id of the object the next allocation creates.
NextId(env) == Len(env.heap) + 1

\* Napi::Error::New(env, message): a new JS Error object.
ErrorNew(env, message) ==
    [env |-> Alloc(env, [type |-> "error", message |-> message]),
     val |-> Ref(NextId(env))]

\* Napi::Error::ThrowAsJavaScriptException: the error becomes the
\* environment's pending exception.
ThrowAsJavaScriptException(env, err) == [env EXCEPT !.pending = err]

\* Napi::Boolean::New(env, b): a primitive, nothing is allocated.
BooleanNew(env, b) == Bool(b)

\* Napi::Array::New(env, length): a new JS array of that length.
ArrayNew(env, length) ==
    [env |-> Alloc(env, [type |-> "array",
                         elems |-> [i \in 1..length |-> Undefined]]),
     val |-> Ref(NextId(env))]

\* Napi::Promise::Deferred::New(env): a new pending promise; the deferred
\* is the handle that settles it.
DeferredNew(env) ==
    [env |-> Alloc(env, [type |-> "promise", state |-> "pending",
                         reason |-> Undefined, settles |-> 0]),
     deferred |-> NextId(env)]

\* The promises of the environment that are still pending, apart from one.
PendingOthers(env, deferred) ==
    { q \in DOMAIN env.heap :
        /\ q # deferred
        /\ env.heap[q].type = "promise"
        /\ env.heap[q].state = "pending" }

\* The environment after the promise of a deferred is settled.
Settle(env, deferred, state, value) ==
    LET p == env.heap[deferred] IN
    [env EXCEPT !.heap[deferred] =
        [p EXCEPT !.state = state, !.reason = value, !.settles = @ + 1]]

\* Napi::Promise::Deferred::Reject(value), as the set of environments the
\* call can leave.  A pending promise becomes rejected with the value, and
\* the settlement frees the deferred.  On a deferred that was settled
\* before, the call uses the freed handle, which is undefined: the process
\* dies in it, or the handle has been taken over by a deferred created
\* since and that one's pending promise is rejected with the value.
DeferredReject(env, deferred, value) ==
    IF env.heap[deferred].state = "pending"
    THEN { Settle(env, deferred, "rejected", value) }
    ELSE { [env EXCEPT !.crashed = TRUE] }
         \cup { Settle(env, q, "rejected", value) :
                    q \in PendingOthers(env, deferred) }

\* Napi::Promise::Deferred::Resolve(value): the fulfilling counterpart; the
\* addon never calls it, only the variant RequestAuthorization_Resolving.
DeferredResolve(env, deferred, value) ==
    IF env.heap[deferred].state = "pending"
    THEN { Settle(env, deferred, "fulfilled", value) }
    ELSE { [env EXCEPT !.crashed = TRUE] }
         \cup { Settle(env, q, "fulfilled", value) :
                    q \in PendingOthers(env, deferred) }

\* Napi::Promise::Deferred::Promise(): the promise the deferred settles.
DeferredPromise(deferred) == Ref(deferred)

\* Napi::Object::Set(key, value) on the exports object.
Set(obj, key, value) ==
    [k \in DOMAIN obj \cup {key} |-> IF k = key THEN value ELSE obj[k]]

\* ------------------------------------------------------------- callbacks

\* Transcribe as it would be if it checked for an audio path first: a
\* call without arguments fails with another error, and argument 1 is read.
Transcribe_Validating(info) ==
    LET env == info.env
        e == IF Len(info.args) = 0
             THEN ErrorNew(env, "Audio path is required")
             ELSE ErrorNew(env, TranscribeMessage)
    IN { Result(ThrowAsJavaScriptException(e.env, e.val), Undefined, {1}) }

\* Transcribe: throws the fixed error and returns undefined; reads no
\* argument.
Transcribe(info) ==
    LET env == info.env
        e == ErrorNew(env, TranscribeMessage)
    IN { Result(ThrowAsJavaScriptException(e.env, e.val), Undefined, {}) }

\* IsAvailable as it would be on the real backend: true.
IsAvailable_True(info) == { Result(info.env, BooleanNew(info.env, TRUE), {}) }

\* IsAvailable as it would be if it answered from what earlier calls left
\* in the environment: true once another call has created an object.
IsAvailable_Stateful(info) ==
    { Result(info.env, BooleanNew(info.env, info.env.heap # <<>>), {}) }

\* IsAvailable: the boolean false.
IsAvailable(info) == { Result(info.env, BooleanNew(info.env, FALSE), {}) }

\* SupportsOnDevice as it would be if it required a locale argument of
\* string type: any other argument list makes it throw.
SupportsOnDevice_Validating(info) ==
    IF Len(info.args) = 1 /\ info.args[1].t = "string"
    THEN { Result(info.env, BooleanNew(info.env, FALSE), {1}) }
    ELSE LET e == ErrorNew(info.env, "Locale string required")
         IN { Result(ThrowAsJavaScriptException(e.env, e.val), Undefined, {1}) }

\* SupportsOnDevice: the boolean false.
SupportsOnDevice(info) == { Result(info.env, BooleanNew(info.env, FALSE), {}) }

\* GetSupportedLocales as it would be with Array::New(env, 1): one hole.
GetSupportedLocales_LengthOne(info) ==
    LET a == ArrayNew(info.env, 1) IN { Result(a.env, a.val, {}) }

\* GetSupportedLocales as it would be if it kept the array in a static
\* reference: the array of the first call is returned by every later one.
GetSupportedLocales_Cached(info) ==
    LET old == { i \in DOMAIN info.env.heap : info.env.heap[i].type = "array" }
        a == ArrayNew(info.env, 0)
    IN IF old = {}
       THEN { Result(a.env, a.val, {}) }
       ELSE { Result(info.env, Ref(CHOOSE i \in old : \A j \in old : i <= j), {}) }

\* GetSupportedLocales: a new array of length 0.
GetSupportedLocales(info) ==
    LET a == ArrayNew(info.env, 0) IN { Result(a.env, a.val, {}) }

\* RequestAuthorization as it would be if the rejection were left to a
\* later callback: the promise is returned while still pending.
RequestAuthorization_Lazy(info) ==
    LET env == info.env
        d == DeferredNew(env)
        e == ErrorNew(d.env, AuthorizationMessage)
    IN { Result(e.env, DeferredPromise(d.deferred), {}) }

\* RequestAuthorization as it would be if it failed the way Transcribe
\* does: the error is thrown and no promise is returned.
RequestAuthorization_Throwing(info) ==
    LET env == info.env
        e == ErrorNew(env, AuthorizationMessage)
    IN { Result(ThrowAsJavaScriptException(e.env, e.val), Undefined, {}) }

\* RequestAuthorization as it would be if it called Resolve where it is to
\* call Reject: the promise is fulfilled with the error as its value.
RequestAuthorization_Resolving(info) ==
    LET env == info.env
        d == DeferredNew(env)
        e == ErrorNew(d.env, AuthorizationMessage)
    IN { Result(r, DeferredPromise(d.deferred), {}) :
             r \in DeferredResolve(e.env, d.deferred, e.val) }

\* RequestAuthorization: a new deferred, rejected with a new error before
\* its promise is returned.
RequestAuthorization(info) ==
    LET env == info.env
        d == DeferredNew(env)
        e == ErrorNew(d.env, AuthorizationMessage)
    IN { Result(r, DeferredPromise(d.deferred), {}) :
             r \in DeferredReject(e.env, d.deferred, e.val) }

\* Init as it would be with a copy-and-paste slip: supportsOnDevice is
\* bound to the IsAvailable callback and requestAuthorization is left out.
ModuleExports_Slip(exp) ==
    LET e1 == Set(exp, "transcribe", Fn("Transcribe"))
        e2 == Set(e1, "isAvailable", Fn("IsAvailable"))
        e3 == Set(e2, "supportsOnDevice", Fn("IsAvailable"))
        e4 == Set(e3, "getSupportedLocales", Fn("GetSupportedLocales"))
    IN e4

\* Init: the five properties set on the exports object the host passes.
ModuleExports(exp) ==
    LET e1 == Set(exp, "transcribe", Fn("Transcribe"))
        e2 == Set(e1, "isAvailable", Fn("IsAvailable"))
        e3 == Set(e2, "supportsOnDevice", Fn("SupportsOnDevice"))
        e4 == Set(e3, "getSupportedLocales", Fn("GetSupportedLocales"))
        e5 == Set(e4, "requestAuthorization", Fn("RequestAuthorization"))
    IN e5

\* ------------------------------------------------------------ the host

\* The C++ callback a JS function value wraps, applied to a CallbackInfo.
Apply(fn, info) ==
    CASE fn.cb = "Transcribe" -> Transcribe(info)
      [] fn.cb = "IsAvailable" -> IsAvailable(info)
      [] fn.cb = "SupportsOnDevice" -> SupportsOnDevice(info)
      [] fn.cb = "GetSupportedLocales" -> GetSupportedLocales(info)
      [] fn.cb = "RequestAuthorization" -> RequestAuthorization(info)

\* What the host sees of a call: a pending exception is thrown to the
\* JS caller (and cleared) in place of the returned value; obs is the
\* object the outcome refers to as it is at the moment of return.
Outcome(name, args, r) ==
    LET thrown == r.env.pending # NoException
        v == IF thrown THEN r.env.pending ELSE r.ret
    IN [name |-> name, args |-> args,
        kind |-> IF thrown THEN "throw" ELSE "return",
        value |-> v,
        obs |-> IF v.t = "object" THEN r.env.heap[v.id] ELSE [type |-> "none"],
        read |-> r.read]

\* The host calls exports[name](args...).  A call in which the process
\* dies returns nothing to the host and ends the run.
Invoke(name, args) ==
    /\ alive
    /\ loaded
    /\ name \in DOMAIN exports
    /\ Len(log) < MaxCalls
    /\ LET info == [env |-> [heap |-> heap, pending |-> pending,
                             crashed |-> FALSE],
                    args |-> args]
       IN \E r \in Apply(exports[name], info) :
             IF r.env.crashed
             THEN /\ alive' = FALSE
                  /\ UNCHANGED <<heap, pending, log>>
             ELSE /\ heap' = r.env.heap
                  /\ pending' = NoException
                  /\ log' = Append(log, Outcome(name, args, r))
                  /\ UNCHANGED alive
    /\ UNCHANGED <<loaded, exports>>

Init ==
    /\ loaded = FALSE
    /\ exports = [k \in {} |-> Undefined]
    /\ heap = <<>>
    /\ pending = NoException
    /\ log = <<>>
    /\ alive = TRUE

\* NODE_API_MODULE(apple_speech, Init): the host loads the addon and runs
\* its Init on a new exports object.
ModuleInit ==
    /\ alive
    /\ ~loaded
    /\ loaded' = TRUE
    /\ exports' = ModuleExports(exports)
    /\ UNCHANGED <<heap, pending, log, alive>>

CallTranscribe == \E args \in ArgLists : Invoke("transcribe", args)

CallIsAvailable == \E args \in ArgLists : Invoke("isAvailable", args)

CallSupportsOnDevice == \E args \in ArgLists : Invoke("supportsOnDevice", args)

CallGetSupportedLocales ==
    \E args \in ArgLists : Invoke("getSupportedLocales", args)

CallRequestAuthorization ==
    \E args \in ArgLists : Invoke("requestAuthorization", args)

\* The ids of the objects the host was handed by a call.
Held == { log[i].value.id : i \in { j \in DOMAIN log : log[j].value.t = "object" } }

\* The host appends an element to an array a call returned to it: the
\* array GetSupportedLocales creates is an ordinary mutable JS array.
CallerPush ==
    \E id \in Held :
        /\ alive
        /\ heap[id].type = "array"
        /\ Len(heap[id].elems) < MaxPush
        /\ heap' = [heap EXCEPT ![id].elems = Append(@, Str("en-US"))]
        /\ UNCHANGED <<loaded, exports, pending, log, alive>>

Next ==
    \/ ModuleInit
    \/ CallTranscribe
    \/ CallIsAvailable
    \/ CallSupportsOnDevice
    \/ CallGetSupportedLocales
    \/ CallRequestAuthorization
    \/ CallerPush

Spec == Init /\ [][Next]_vars

\* ---------------------------------------------------------------- claims

\* The positions in the log of the calls to an entry point.
Calls(name) == { i \in DOMAIN log : log[i].name = name }

\* The message of the error an outcome carries: the thrown error's, or
\* the rejection reason's of a returned promise; "" when it carries none.
MessageOf(e) ==
    CASE e.obs.type = "error" -> e.obs.message
      [] e.obs.type = "promise" /\ e.obs.reason.t = "object" ->
            heap[e.obs.reason.id].message
      [] OTHER -> ""

\* An outcome without the identities of the objects in it: what two calls
\* must agree on to have the same outcome.
Shape(e) ==
    [kind |-> e.kind,
     t |-> e.value.t,
     b |-> IF e.value.t = "boolean" THEN e.value.b ELSE FALSE,
     type |-> e.obs.type,
     state |-> IF e.obs.type = "promise" THEN e.obs.state ELSE "",
     length |-> IF e.obs.type = "array" THEN Len(e.obs.elems) ELSE 0,
     message |-> MessageOf(e)]

\* C1: every call to transcribe, whatever its arguments, throws an error
\* whose message is exactly "Apple Speech is only available on macOS",
\* having read none of its arguments; it never returns a value.
C1_TranscribeAlwaysThrows ==
    \A i \in Calls("transcribe") :
        /\ log[i].kind = "throw"
        /\ log[i].obs.type = "error"
        /\ log[i].obs.message = "Apple Speech is only available on macOS"
        /\ log[i].read = {}

\* transcribe has been called without arguments and with two arguments.
C1_Witness ==
    /\ \E i \in Calls("transcribe") : log[i].args = <<>> /\ log[i].kind = "throw"
    /\ \E i \in Calls("transcribe") : Len(log[i].args) = 2 /\ log[i].kind = "throw"

\* C2: the promise requestAuthorization returns is already rejected when
\* the call returns (never pending), and its reason carries the fixed
\* message, the same one transcribe throws.
C2_AuthorizationRejectedAtReturn ==
    \A i \in Calls("requestAuthorization") :
        /\ log[i].kind = "return"
        /\ log[i].obs.type = "promise"
        /\ log[i].obs.state = "rejected"
        /\ MessageOf(log[i]) = "Apple Speech is only available on macOS"
        /\ \A j \in Calls("transcribe") : MessageOf(log[i]) = MessageOf(log[j])

\* requestAuthorization and transcribe have both been called.
C2_Witness ==
    /\ \E i \in Calls("requestAuthorization") : log[i].obs.type = "promise"
    /\ Calls("transcribe") # {}

\* C3: every call to isAvailable returns the boolean false and throws
\* nothing, whatever was called before it.
C3_IsAvailableFalse ==
    \A i \in Calls("isAvailable") :
        log[i].kind = "return" /\ log[i].value = Bool(FALSE)

\* isAvailable has returned for the second time, after a call to another
\* entry point that allocated and threw.
C3_Witness ==
    /\ Len(log) >= 3
    /\ log[1].name = "isAvailable"
    /\ log[2].name \in {"transcribe", "requestAuthorization"}
    /\ log[3].name = "isAvailable"
    /\ log[3].kind = "return"

\* C4: every call to supportsOnDevice returns the boolean false and throws
\* nothing, whatever its arguments and whatever was called before it.
C4_SupportsOnDeviceFalse ==
    \A i \in Calls("supportsOnDevice") :
        log[i].kind = "return" /\ log[i].value = Bool(FALSE)

\* supportsOnDevice has returned from a call with two arguments that are
\* not strings, after another entry point was called.
C4_Witness ==
    \E i \in Calls("supportsOnDevice") :
        /\ i > 1
        /\ log[i - 1].name # "supportsOnDevice"
        /\ Len(log[i].args) = 2
        /\ log[i].kind = "return"

\* C5: every call to getSupportedLocales returns an array of length 0 and
\* throws nothing, whatever was called before it.
C5_LocalesEmpty ==
    \A i \in Calls("getSupportedLocales") :
        /\ log[i].kind = "return"
        /\ log[i].obs.type = "array"
        /\ Len(log[i].obs.elems) = 0

\* getSupportedLocales has returned an array after another call.
C5_Witness ==
    \E i \in Calls("getSupportedLocales") :
        i > 1 /\ log[i].kind = "return" /\ log[i].obs.type = "array"

\* C6: the outcome of a call depends only on the entry point called: any
\* two calls to the same entry point, whatever their arguments and
\* whatever came between them, have the same outcome; and isAvailable
\* followed by transcribe gives false and then the fixed-message failure.
C6_HistoryIndependent ==
    /\ \A i, j \in DOMAIN log :
          log[i].name = log[j].name => Shape(log[i]) = Shape(log[j])
    /\ \A i \in Calls("isAvailable") :
          (i + 1) \in Calls("transcribe") =>
              /\ log[i].value = Bool(FALSE)
              /\ log[i + 1].kind = "throw"
              /\ MessageOf(log[i + 1]) = "Apple Speech is only available on macOS"

\* isAvailable, then transcribe, then isAvailable again.
C6_Witness ==
    /\ Len(log) >= 3
    /\ log[1].name = "isAvailable"
    /\ log[2].name = "transcribe"
    /\ log[2].kind = "throw"
    /\ log[3].name = "isAvailable"
    /\ log[3].args # log[1].args

\* The entry point each exported name is to be bound to.
Handler ==
    [n \in {"transcribe", "isAvailable", "supportsOnDevice",
            "getSupportedLocales", "requestAuthorization"} |->
        CASE n = "transcribe" -> Fn("Transcribe")
          [] n = "isAvailable" -> Fn("IsAvailable")
          [] n = "supportsOnDevice" -> Fn("SupportsOnDevice")
          [] n = "getSupportedLocales" -> Fn("GetSupportedLocales")
          [] n = "requestAuthorization" -> Fn("RequestAuthorization")]

\* C7: after module initialisation the exports object has exactly the five
\* names, each bound to its own callback.
C7_ExactlyFiveExports ==
    loaded =>
        /\ DOMAIN exports = DOMAIN Handler
        /\ Cardinality(DOMAIN exports) = 5
        /\ \A n \in DOMAIN exports : exports[n] = Handler[n]

\* The module has been initialised and its exports have been called.
C7_Witness == loaded /\ exports # <<>> /\ log # <<>>

\* C8: transcribe delivers its error by throwing, never in a promise;
\* requestAuthorization returns normally with a promise, never throws, and
\* delivers its error as the promise's rejection reason.
C8_PropagationChannel ==
    /\ \A i \in Calls("transcribe") :
          /\ log[i].kind = "throw"
          /\ log[i].obs.type # "promise"
          /\ \A id \in DOMAIN heap :
                heap[id].type = "promise" => log[i].value # Ref(id)
    /\ \A i \in Calls("requestAuthorization") :
          /\ log[i].kind = "return"
          /\ log[i].value.t = "object"
          /\ heap[log[i].value.id].type = "promise"
          /\ heap[log[i].value.id].reason.t = "object"
          /\ heap[heap[log[i].value.id].reason.id].type = "error"

\* Both failing entry points have been called, in this order.
C8_Witness ==
    \E i \in Calls("requestAuthorization") :
        /\ (i + 1) \in Calls("transcribe")
        /\ log[i].kind = "return"
        /\ log[i + 1].kind = "throw"

\* C9: a call leaves the exports and every existing object as they were, and
\* an object it returns is new: no earlier call returned it and it was not
\* in the heap before; an array returned by getSupportedLocales is empty
\* even when the host has appended to an array returned earlier.
C9_FreshResponses ==
    [][Len(log') > Len(log) =>
         LET e == log'[Len(log')] IN
         /\ exports' = exports
         /\ loaded' = loaded
         /\ pending' = pending
         /\ \A id \in DOMAIN heap : heap'[id] = heap[id]
         /\ e.value.t = "object" =>
               /\ e.value.id \notin DOMAIN heap
               /\ e.value.id \notin Held
         /\ e.name \in {"getSupportedLocales", "requestAuthorization"} =>
               e.value.t = "object"
         /\ e.name = "getSupportedLocales" => e.obs.elems = <<>>]_vars

\* Two calls to getSupportedLocales returned two arrays, the host's
\* element is in the first and not in the second, and a further call was
\* made after them.
C9_Witness ==
    \E i, j \in Calls("getSupportedLocales") :
        /\ i < j
        /\ log[i].value # log[j].value
        /\ heap[log[i].value.id].elems # <<>>
        /\ heap[log[j].value.id].elems = <<>>
        /\ log[j].obs.elems = <<>>
        /\ Len(log) > j

\* The promises in the heap.
Promises == { id \in DOMAIN heap : heap[id].type = "promise" }

\* C10: every promise requestAuthorization created has been settled
\* exactly once, by a rejection with an error, in the call that created and
\* returned it: none is pending, none fulfilled, none settled again (a
\* second settlement would end the process).
C10_SettledOnceByRejection ==
    /\ alive
    /\ \A id \in Promises :
          /\ heap[id].state = "rejected"
          /\ heap[id].settles = 1
          /\ heap[id].reason.t = "object"
          /\ heap[heap[id].reason.id].type = "error"
          /\ \E i \in Calls("requestAuthorization") :
                log[i].value = Ref(id) /\ log[i].obs = heap[id]

\* Two promises exist, and calls were made after the first was created.
C10_Witness ==
    /\ Cardinality(Promises) >= 2
    /\ \A id \in Promises : heap[id].settles = 1
    /\ Len(log) >= 3

====
